---------------------------- MODULE Spec2Model ----------------------------
(***************************************************************************)
(* Model of barcode_trimmer_streamlit_app.py: the adapter loader, the      *)
(* scored classifier filter_reads_web (parasail Smith-Waterman), the       *)
(* substring classifier simple_filter_fallback, and the part of main()     *)
(* that runs one of them and keeps the outcome in st.session_state.        *)
(*                                                                         *)
(* Text is a sequence of lines (what split('\n') yields); a line, like any *)
(* Python str, is a sequence of one-character strings.                     *)
(*                                                                         *)
(* Two libraries are called by the source and are not part of it.  They    *)
(* are modelled by their behaviour on the inputs the model draws:          *)
(*   Bio.SeqIO.parse   FASTQ: records of 4 lines, ValueError on a file     *)
(*                     that ends inside a record.  FASTA: one record per   *)
(*                     '>' line, also when no sequence line follows it.    *)
(*   parasail          matrix_create and the 16-bit kernel sw_scan_16.     *)
(* Where a library's outcome depends on its version (the score reported    *)
(* after 16-bit saturation, an empty query) the outcome is the variable    *)
(* build, chosen in Init.                                                  *)
(***************************************************************************)
EXTENDS Integers, Sequences, FiniteSets, TLC

VARIABLES
    DEPENDENCIES_AVAILABLE, \* module flag set by the import at lines 17-23
    build,                  \* library outcomes that depend on the version
    adapter_content,        \* arguments of filter_reads_web
    reads_content,
    reads_filename,
    params,
    progress_placeholder,   \* TRUE: a placeholder was passed; FALSE: None
    pc,                     \* position in main() / in the running function
    adapters,               \* locals of the running function
    fmt,
    reads_lines,
    pos,
    current_header,
    current_seq,
    total_reads,
    processed,
    scanned,
    kept_reads,
    discarded_reads,
    kept_lines,
    discarded_lines,
    kept_count,
    discarded_count,
    progress,               \* what was written to the placeholder, in order
    ret,                    \* the returned (kept_content, discarded_content, log_content)
    results,                \* st.session_state.results
    message                 \* the last st.error / st.success of main()

vars == <<DEPENDENCIES_AVAILABLE, build, adapter_content, reads_content,
          reads_filename, params, progress_placeholder, pc, adapters, fmt,
          reads_lines, pos, current_header, current_seq, total_reads,
          processed, scanned, kept_reads, discarded_reads, kept_lines,
          discarded_lines, kept_count, discarded_count, progress, ret,
          results, message>>

args == <<DEPENDENCIES_AVAILABLE, build, adapter_content, reads_content,
          reads_filename, params, progress_placeholder>>


-----------------------------------------------------------------------------
(* Python str operations used by the source.                               *)

Max(a, b) == IF a >= b THEN a ELSE b

UpperChar(c) ==
    CASE c = "a" -> "A"
      [] c = "c" -> "C"
      [] c = "g" -> "G"
      [] c = "t" -> "T"
      [] c = "n" -> "N"
      [] c = "f" -> "F"
      [] c = "q" -> "Q"
      [] c = "x" -> "X"
      [] OTHER -> c

LowerChar(c) ==
    CASE c = "A" -> "a"
      [] c = "C" -> "c"
      [] c = "G" -> "g"
      [] c = "T" -> "t"
      [] c = "N" -> "n"
      [] c = "F" -> "f"
      [] c = "Q" -> "q"
      [] c = "X" -> "x"
      [] OTHER -> c

upper(s) == [i \in 1..Len(s) |-> UpperChar(s[i])]

lower(s) == [i \in 1..Len(s) |-> LowerChar(s[i])]

IsSpace(c) == c = " "

RECURSIVE lstrip(_)
lstrip(s) ==
    IF s # <<>> /\ IsSpace(Head(s)) THEN lstrip(Tail(s)) ELSE s

RECURSIVE rstrip(_)
rstrip(s) ==
    IF s # <<>> /\ IsSpace(s[Len(s)]) THEN rstrip(SubSeq(s, 1, Len(s) - 1)) ELSE s

strip(s) == rstrip(lstrip(s))

startswith(s, c) == s # <<>> /\ Head(s) = c

\* a in s, for two str
IsSubstring(a, s) ==
    \E k \in 0..(Len(s) - Len(a)) : SubSeq(s, k + 1, k + Len(a)) = a

RECURSIVE DropBlankHead(_)
DropBlankHead(ls) ==
    IF ls # <<>> /\ strip(Head(ls)) = <<>> THEN DropBlankHead(Tail(ls)) ELSE ls

RECURSIVE DropBlankTail(_)
DropBlankTail(ls) ==
    IF ls # <<>> /\ strip(ls[Len(ls)]) = <<>>
    THEN DropBlankTail(SubSeq(ls, 1, Len(ls) - 1))
    ELSE ls

\* content.strip().split('\n'): the whitespace at both ends of the text goes,
\* blank lines included; the empty text splits into one empty line.
strip_split(content) ==
    LET a == DropBlankTail(DropBlankHead(content))
        n == Len(a)
    IN  IF n = 0 THEN << <<>> >>
        ELSE [i \in 1..n |->
                IF i = 1 /\ i = n THEN strip(a[i])
                ELSE IF i = 1 THEN lstrip(a[i])
                ELSE IF i = n THEN rstrip(a[i])
                ELSE a[i]]

-----------------------------------------------------------------------------
(* Bio.Seq.reverse_complement on an upper-cased sequence: A<->T, C<->G,    *)
(* N stays N.                                                              *)

Complement(c) ==
    CASE c = "A" -> "T"
      [] c = "T" -> "A"
      [] c = "C" -> "G"
      [] c = "G" -> "C"
      [] OTHER -> c

reverse_complement(s) == [i \in 1..Len(s) |-> Complement(s[Len(s) + 1 - i])]

\* lines 76-78 and 85-87: the sequence, then its reverse complement
AdapterPair(current) ==
    LET seq == upper(current) IN <<seq, reverse_complement(seq)>>

RECURSIVE load_adapters_loop(_, _, _)
load_adapters_loop(lines, cur, acc) ==
    IF lines = <<>>
    THEN IF cur # <<>> THEN acc \o AdapterPair(cur) ELSE acc
    ELSE LET line == strip(Head(lines)) IN
         IF startswith(line, ">")
         THEN load_adapters_loop(Tail(lines), <<>>,
                                 IF cur # <<>> THEN acc \o AdapterPair(cur) ELSE acc)
         ELSE load_adapters_loop(Tail(lines), cur \o line, acc)

\* a faulty loader, for comparison: the record after the last header is lost
load_adapters_nolast(fasta_content) ==
    LET all == load_adapters_loop(strip_split(fasta_content), <<>>, <<>>) IN
    IF all = <<>> THEN all ELSE SubSeq(all, 1, Len(all) - 2)

\* lines 66-89
load_adapters(fasta_content) ==
    load_adapters_loop(strip_split(fasta_content), <<>>, <<>>)

\* lines 190-203: the fallback's own adapter loop keeps the upper-cased
\* sequences only
RECURSIVE fallback_adapters_loop(_, _, _)
fallback_adapters_loop(lines, cur, acc) ==
    IF lines = <<>>
    THEN IF cur # <<>> THEN Append(acc, upper(cur)) ELSE acc
    ELSE LET line == strip(Head(lines)) IN
         IF startswith(line, ">")
         THEN fallback_adapters_loop(Tail(lines), <<>>,
                                     IF cur # <<>> THEN Append(acc, upper(cur)) ELSE acc)
         ELSE fallback_adapters_loop(Tail(lines), cur \o line, acc)

fallback_adapters(adapter_text) ==
    fallback_adapters_loop(strip_split(adapter_text), <<>>, <<>>)

\* Path(filename).suffix.lower(); the model's file name is its suffix
file_format_from_name(filename) ==
    LET ext == lower(filename) IN
    IF ext \in { <<".", "f", "a">>, <<".", "f", "a", "s", "t", "a">> } THEN "fasta"
    ELSE IF ext \in { <<".", "f", "q">>, <<".", "f", "a", "s", "t", "q">> } THEN "fastq"
    ELSE "fastq"

-----------------------------------------------------------------------------
(* parasail.  matrix_create("ACGT", match, mismatch) scores two letters of *)
(* the alphabet (either case) by match or mismatch, and any pair with a    *)
(* symbol outside it by 0.  sw_scan_16 is local alignment with the gap of  *)
(* length k costing open + (k-1)*extend, computed in 16-bit lanes.         *)

INT16_MAX == 32767

NegInf == 0 - 1000000000

Alphabet == {"A", "C", "G", "T"}

matrix_create(a, b, match, mismatch) ==
    IF UpperChar(a) \in Alphabet /\ UpperChar(b) \in Alphabet
    THEN IF UpperChar(a) = UpperChar(b) THEN match ELSE mismatch
    ELSE 0

SeqMax(h) ==
    LET S == {h[j] : j \in 1..Len(h)} IN
    IF S = {} THEN 0 ELSE CHOOSE x \in S : \A y \in S : x >= y

\* one row of the recurrence: H, E (gap along the row), F (gap along the column)
RECURSIVE SWRow(_, _, _, _, _, _, _, _, _)
SWRow(a, s2, P, Hprev, Fprev, j, Hcur, Fcur, Eleft) ==
    IF j > Len(s2) THEN <<Hcur, Fcur>>
    ELSE LET Hleft == IF j = 1 THEN 0 ELSE Hcur[j - 1]
             Hdiag == IF j = 1 THEN 0 ELSE Hprev[j - 1]
             E == Max(Eleft - P.gap_extend, Hleft - P.gap_open)
             F == Max(Fprev[j] - P.gap_extend, Hprev[j] - P.gap_open)
             W == matrix_create(a, s2[j], P.match, P.mismatch)
             H == Max(Max(0, Hdiag + W), Max(E, F))
         IN  SWRow(a, s2, P, Hprev, Fprev, j + 1, Append(Hcur, H), Append(Fcur, F), E)

RECURSIVE SWRows(_, _, _, _, _, _, _)
SWRows(s1, s2, P, i, Hprev, Fprev, best) ==
    IF i > Len(s1) THEN best
    ELSE LET r == SWRow(s1[i], s2, P, Hprev, Fprev, 1, <<>>, <<>>, NegInf)
         IN  SWRows(s1, s2, P, i + 1, r[1], r[2], Max(best, SeqMax(r[1])))

\* the local-alignment score in unbounded integers
SWScore(s1, s2, P) ==
    SWRows(s1, s2, P, 1, [j \in 1..Len(s2) |-> 0], [j \in 1..Len(s2) |-> NegInf], 0)

\* The 16-bit kernel flags saturation when a cell passes its positive limit
\* (all of int16, or int16 less the largest matrix entry and one, by build)
\* and then reports build.saturated_score instead of the score.
PosLimit(P, b) ==
    IF b.guard THEN INT16_MAX - Max(P.match, P.mismatch) - 1 ELSE INT16_MAX

\* sw_scan_16(seq, adapter, gap_open, gap_extend, matrix): reading .score
\* raises when the binding has no result (empty query, by build)
sw_scan_16(s1, s2, P, b) ==
    IF s1 = <<>> /\ b.empty_query = "raise" THEN [raised |-> TRUE, score |-> 0]
    ELSE LET t == SWScore(s1, s2, P) IN
         [raised |-> FALSE,
          score |-> IF t > PosLimit(P, b) THEN b.saturated_score ELSE t]

\* a faulty scan, for comparison: a hit only when the score equals min_score
RECURSIVE ScanAdaptersExact(_, _, _, _, _)
ScanAdaptersExact(seq, ads, P, b, k) ==
    IF k > Len(ads) THEN 0
    ELSE LET r == sw_scan_16(seq, ads[k], P, b) IN
         IF r.raised THEN 0 - 1
         ELSE IF r.score = P.min_score THEN k
         ELSE ScanAdaptersExact(seq, ads, P, b, k + 1)

\* lines 136-140: index of the first adapter whose score reaches min_score,
\* 0 when none does, -1 when a call raises before that
RECURSIVE ScanAdapters(_, _, _, _, _)
ScanAdapters(seq, ads, P, b, k) ==
    IF k > Len(ads) THEN 0
    ELSE LET r == sw_scan_16(seq, ads[k], P, b) IN
         IF r.raised THEN 0 - 1
         ELSE IF r.score >= P.min_score THEN k
         ELSE ScanAdapters(seq, ads, P, b, k + 1)

\* lines 224, 255, 276: any(adapter in seq for adapter in adapters)
AnySubstring(seq, ads) == \E k \in 1..Len(ads) : IsSubstring(ads[k], seq)

-----------------------------------------------------------------------------
(* Bio.SeqIO.parse and SeqIO.write.  A record is [id, seq, qual].  The     *)
(* iterator is lazy: NextRecord is one step of it from line p on, with     *)
(* kind "record" (and the line after the record), "end", or "error" for    *)
(* the ValueError it raises.                                               *)

\* the concatenation of f[lo], ..., f[hi]
RECURSIVE JoinRange(_, _, _)
JoinRange(f, lo, hi) ==
    IF lo > hi THEN <<>>
    ELSE IF lo = hi THEN f[lo]
    ELSE LET mid == (lo + hi) \div 2 IN
         JoinRange(f, lo, mid) \o JoinRange(f, mid + 1, hi)

Join(ls) == JoinRange(ls, 1, Len(ls))

RstripAll(lines, from, to) == [i \in 1..(to - from + 1) |-> rstrip(lines[from + i - 1])]

\* index of the first line from p on that starts with c, Len(lines)+1 if none
RECURSIVE NextStarting(_, _, _)
NextStarting(lines, c, p) ==
    IF p > Len(lines) \/ startswith(lines[p], c) THEN p
    ELSE NextStarting(lines, c, p + 1)

\* quality lines run to the end of the file, or to a line starting with "@"
\* once the quality is as long as the sequence
RECURSIVE QualityEnd(_, _, _, _)
QualityEnd(lines, p, qlen, seq_len) ==
    IF p > Len(lines) THEN p
    ELSE IF startswith(lines[p], "@") /\ qlen >= seq_len THEN p
    ELSE QualityEnd(lines, p + 1, qlen + Len(rstrip(lines[p])), seq_len)

NoRecord == [id |-> <<>>, seq |-> <<>>, qual |-> <<>>]

IterEnd == [kind |-> "end", rec |-> NoRecord, next |-> 0]

IterError == [kind |-> "error", rec |-> NoRecord, next |-> 0]

\* FASTQ: the "@" line, sequence lines up to the "+" line, quality lines
NextFastqRecord(lines, p) ==
    IF p > Len(lines) THEN IterEnd
    ELSE IF ~startswith(lines[p], "@") THEN IterError
    ELSE LET plus == NextStarting(lines, "+", p + 1) IN
         IF plus >= Len(lines) THEN IterError
         ELSE LET seq_string == Join(RstripAll(lines, p + 1, plus - 1))
                  qend == QualityEnd(lines, plus + 1, 0, Len(seq_string))
                  quality_string == Join(RstripAll(lines, plus + 1, qend - 1))
              IN  IF Len(quality_string) # Len(seq_string) THEN IterError
                  ELSE [kind |-> "record",
                        rec |-> [id |-> rstrip(Tail(lines[p])),
                                 seq |-> seq_string,
                                 qual |-> quality_string],
                        next |-> qend]

\* FASTA: lines before the first ">" line are skipped; a record is a ">"
\* line and the lines up to the next one, also when there are none
NextFastaRecord(lines, p) ==
    LET h == NextStarting(lines, ">", p) IN
    IF h > Len(lines) THEN IterEnd
    ELSE LET e == NextStarting(lines, ">", h + 1)
             body == [i \in 1..(e - h - 1) |->
                        SelectSeq(rstrip(lines[h + i]), LAMBDA c : c # " ")]
         IN  [kind |-> "record",
              rec |-> [id |-> rstrip(Tail(lines[h])), seq |-> Join(body),
                       qual |-> <<>>],
              next |-> e]

NextRecord(lines, format, p) ==
    IF format = "fastq" THEN NextFastqRecord(lines, p) ELSE NextFastaRecord(lines, p)

\* list(SeqIO.parse(...)): [ok, records], ok = FALSE when the iterator raises
RECURSIVE ParseFrom(_, _, _, _)
ParseFrom(lines, format, p, acc) ==
    LET r == NextRecord(lines, format, p) IN
    IF r.kind = "end" THEN [ok |-> TRUE, records |-> acc]
    ELSE IF r.kind = "error" THEN [ok |-> FALSE, records |-> acc]
    ELSE ParseFrom(lines, format, r.next, Append(acc, r.rec))

SeqIO_parse(content, format) == ParseFrom(content, format, 1, <<>>)

\* SeqIO.write: FASTA writes the header and, for a non-empty sequence, the
\* sequence (one line up to 60 letters); FASTQ writes the four lines.
RecordLines(rec, format) ==
    IF format = "fastq"
    THEN << <<"@">> \o rec.id, rec.seq, <<"+">>, rec.qual >>
    ELSE IF rec.seq = <<>> THEN << <<">">> \o rec.id >>
    ELSE << <<">">> \o rec.id, rec.seq >>

SeqIO_write(records, format) ==
    Join([k \in 1..Len(records) |-> RecordLines(records[k], format)])

-----------------------------------------------------------------------------
(* The running function: filter_reads_web, and simple_filter_fallback when *)
(* the libraries are missing.  pc = "call" is the call; "returned" and     *)
(* "raised" are its two ends.                                              *)

ProgressEvery == 100

NoReturn == [kind |-> "none"]

\* the f-string of lines 166-182 and 293-311, field by field (the two
\* timestamps left out); counts are kept as numbers
LogContent(mode, P, filename, format, total, nadapters, nkept, ndiscarded) ==
    [mode |-> mode, parameters |-> P, input_file |-> filename,
     format |-> IF format = "fastq" THEN "FASTQ" ELSE "FASTA", total_reads |-> total,
     adapters_loaded |-> nadapters, reads_kept |-> nkept,
     reads_discarded |-> ndiscarded]

Returned(kept, discarded, log) ==
    [kind |-> "triple", kept_content |-> kept, discarded_content |-> discarded,
     log_content |-> log]

\* progress_placeholder.text(f"Processing reads: {a:,}/{b:,}")
Report(a, b) == <<a, b>>

\* lines 148-149, 235-236, 265-266
AfterRead(p, n, total) ==
    IF progress_placeholder /\ n % ProgressEvery = 0
    THEN Append(p, Report(n, total))
    ELSE p

\* lines 152-153, 240-241, 287-288
FinalReport(p, total) ==
    IF progress_placeholder THEN Append(p, Report(total, total)) ELSE p

FreshLocals ==
    /\ adapters = <<>>
    /\ fmt = "fastq"
    /\ reads_lines = <<>>
    /\ pos = 0
    /\ current_header = <<>>
    /\ current_seq = <<>>
    /\ total_reads = 0
    /\ processed = 0
    /\ scanned = 0
    /\ kept_reads = <<>>
    /\ discarded_reads = <<>>
    /\ kept_lines = <<>>
    /\ discarded_lines = <<>>
    /\ kept_count = 0
    /\ discarded_count = 0
    /\ progress = <<>>
    /\ ret = NoReturn

\* a faulty routing, for comparison: the record goes to the front
RoutePrepend(reads, rec) == <<rec>> \o reads

\* lines 143 and 145: list.append
Route(reads, rec) == Append(reads, rec)

\* lines 228, 231, 258, 261, 279, 282: list.extend
Extend(lines, block) == lines \o block

\* a faulty bound, for comparison: a group of three lines is processed
GroupCompleteOffByOne(i, n) == i + 3 <= n

\* line 219: the group at i is processed when its fourth line exists
GroupComplete(i, n) == i + 3 < n

\* reads_lines[i:j], a Python slice: it stops at the end of the list
Slice(lines, i, j) ==
    SubSeq(lines, i + 1, IF j <= Len(lines) THEN j ELSE Len(lines))

\* lines 106-118: the dispatch, then adapters, matrix and format
ScoredStart ==
    /\ pc = "call"
    /\ DEPENDENCIES_AVAILABLE
    /\ adapters' = load_adapters(adapter_content)
    /\ fmt' = file_format_from_name(reads_filename)
    /\ pos' = 1
    /\ pc' = "count"
    /\ UNCHANGED <<args, reads_lines, current_header, current_seq,
                   total_reads, processed, scanned, kept_reads, discarded_reads,
                   kept_lines, discarded_lines, kept_count, discarded_count,
                   progress, ret, results, message>>

\* lines 120-123: one iteration of the counting pass; a file the parser
\* rejects raises here, before any read is classified
CountPass ==
    /\ pc = "count"
    /\ LET r == NextRecord(reads_content, fmt, pos) IN
       IF r.kind = "record"
       THEN /\ total_reads' = total_reads + 1
            /\ pos' = r.next
            /\ pc' = "count"
       ELSE IF r.kind = "end"
       THEN /\ pos' = 1
            /\ pc' = "scan"
            /\ UNCHANGED total_reads
       ELSE /\ pc' = "raised"
            /\ UNCHANGED <<total_reads, pos>>
    /\ UNCHANGED <<args, adapters, fmt, reads_lines, current_header, current_seq,
                   processed, scanned, kept_reads, discarded_reads, kept_lines,
                   discarded_lines, kept_count, discarded_count, progress, ret,
                   results, message>>

\* lines 131-149: one iteration of the loop over the records
ScoredRead ==
    /\ pc = "scan"
    /\ NextRecord(reads_content, fmt, pos).kind = "record"
    /\ LET r == NextRecord(reads_content, fmt, pos)
           rec == r.rec
           seq == upper(rec.seq)
           hit == ScanAdapters(seq, adapters, params, build, 1)
       IN  /\ processed' = processed + 1
           /\ pos' = r.next
           /\ IF hit < 0
              THEN /\ pc' = "raised"
                   /\ scanned' = 1
                   /\ UNCHANGED <<kept_reads, discarded_reads, progress>>
              ELSE /\ pc' = "scan"
                   /\ scanned' = IF hit > 0 THEN hit ELSE Len(adapters)
                   /\ discarded_reads' = IF hit > 0 THEN Route(discarded_reads, rec)
                                         ELSE discarded_reads
                   /\ kept_reads' = IF hit > 0 THEN kept_reads
                                    ELSE Route(kept_reads, rec)
                   /\ progress' = AfterRead(progress, processed + 1, total_reads)
    /\ UNCHANGED <<args, adapters, fmt, reads_lines, current_header,
                   current_seq, total_reads, kept_lines, discarded_lines,
                   kept_count, discarded_count, ret, results, message>>

\* lines 151-184: last progress text, the two outputs, the log
ScoredFinish ==
    /\ pc = "scan"
    /\ NextRecord(reads_content, fmt, pos).kind = "end"
    /\ progress' = FinalReport(progress, total_reads)
    /\ ret' = Returned(SeqIO_write(kept_reads, fmt),
                       SeqIO_write(discarded_reads, fmt),
                       LogContent("full", params, reads_filename, fmt, total_reads,
                                  Len(adapters) \div 2, Len(kept_reads),
                                  Len(discarded_reads)))
    /\ pc' = "returned"
    /\ UNCHANGED <<args, adapters, fmt, reads_lines, pos, current_header,
                   current_seq, total_reads, processed, scanned, kept_reads,
                   discarded_reads, kept_lines, discarded_lines, kept_count,
                   discarded_count, results, message>>

\* lines 106-108, 189-217 and 243-248: dispatch to the fallback, its
\* adapters, the lines of the reads, the count used for progress
FallbackStart ==
    /\ pc = "call"
    /\ ~DEPENDENCIES_AVAILABLE
    /\ adapters' = fallback_adapters(adapter_content)
    /\ fmt' = file_format_from_name(reads_filename)
    /\ reads_lines' = strip_split(reads_content)
    /\ IF fmt' = "fastq"
       THEN /\ total_reads' = Len(reads_lines') \div 4
            /\ pos' = 0
            /\ pc' = "fastq_loop"
       ELSE /\ total_reads' = Cardinality({i \in 1..Len(reads_lines') :
                                  startswith(strip(reads_lines'[i]), ">")})
            /\ pos' = 1
            /\ pc' = "fasta_loop"
    /\ UNCHANGED <<args, current_header, current_seq, processed, scanned,
                   kept_reads, discarded_reads, kept_lines, discarded_lines,
                   kept_count, discarded_count, progress, ret, results, message>>

\* lines 218-236: one value of i in range(0, len(reads_lines), 4); pos is i
FallbackFastqGroup ==
    /\ pc = "fastq_loop"
    /\ pos < Len(reads_lines)
    /\ pos' = pos + 4
    /\ IF GroupComplete(pos, Len(reads_lines))
       THEN LET seq == upper(strip(reads_lines[pos + 2]))
                contaminated == AnySubstring(seq, adapters)
                read_block == Slice(reads_lines, pos, pos + 4)
            IN  /\ processed' = processed + 1
                /\ discarded_lines' = IF contaminated
                                      THEN Extend(discarded_lines, read_block)
                                      ELSE discarded_lines
                /\ discarded_count' = IF contaminated THEN discarded_count + 1
                                      ELSE discarded_count
                /\ kept_lines' = IF contaminated THEN kept_lines
                                 ELSE Extend(kept_lines, read_block)
                /\ kept_count' = IF contaminated THEN kept_count ELSE kept_count + 1
                /\ progress' = AfterRead(progress, processed + 1, total_reads)
       ELSE UNCHANGED <<processed, discarded_lines, discarded_count, kept_lines,
                        kept_count, progress>>
    /\ UNCHANGED <<args, pc, adapters, fmt, reads_lines, current_header,
                   current_seq, total_reads, scanned, kept_reads, discarded_reads,
                   ret, results, message>>

\* a faulty log, for comparison: Total reads is the count made before the loop
FallbackReturnHeaderCount(klines, dlines, kcount, dcount, total) ==
    Returned(klines, dlines,
             LogContent("simplified", params, reads_filename, fmt, total_reads,
                        Len(adapters), kcount, dcount))

\* lines 290-313, after total = processed
FallbackReturn(klines, dlines, kcount, dcount, total) ==
    Returned(klines, dlines,
             LogContent("simplified", params, reads_filename, fmt, total,
                        Len(adapters), kcount, dcount))

\* lines 238-241 and 290-313
FallbackFastqFinish ==
    /\ pc = "fastq_loop"
    /\ pos >= Len(reads_lines)
    /\ progress' = FinalReport(progress, processed)
    /\ ret' = FallbackReturn(kept_lines, discarded_lines, kept_count,
                             discarded_count, processed)
    /\ pc' = "returned"
    /\ UNCHANGED <<args, adapters, fmt, reads_lines, pos, current_header,
                   current_seq, total_reads, processed, scanned, kept_reads,
                   discarded_reads, kept_lines, discarded_lines, kept_count,
                   discarded_count, results, message>>

\* lines 250-271: one line of the reads; pos is its 1-based index
FallbackFastaLine ==
    /\ pc = "fasta_loop"
    /\ pos <= Len(reads_lines)
    /\ pos' = pos + 1
    /\ LET line == strip(reads_lines[pos]) IN
       IF startswith(line, ">")
       THEN /\ current_header' = line
            /\ current_seq' = <<>>
            /\ IF current_header # <<>> /\ current_seq # <<>>
               THEN LET contaminated == AnySubstring(upper(current_seq), adapters)
                        block == <<current_header, current_seq>>
                    IN  /\ processed' = processed + 1
                        /\ discarded_lines' = IF contaminated
                                              THEN Extend(discarded_lines, block)
                                              ELSE discarded_lines
                        /\ discarded_count' = IF contaminated THEN discarded_count + 1
                                              ELSE discarded_count
                        /\ kept_lines' = IF contaminated THEN kept_lines
                                         ELSE Extend(kept_lines, block)
                        /\ kept_count' = IF contaminated THEN kept_count
                                         ELSE kept_count + 1
                        /\ progress' = AfterRead(progress, processed + 1, total_reads)
               ELSE UNCHANGED <<processed, discarded_lines, discarded_count,
                                kept_lines, kept_count, progress>>
       ELSE /\ current_seq' = current_seq \o line
            /\ UNCHANGED <<current_header, processed, discarded_lines,
                           discarded_count, kept_lines, kept_count, progress>>
    /\ UNCHANGED <<args, pc, adapters, fmt, reads_lines, total_reads,
                   scanned, kept_reads, discarded_reads, ret, results, message>>

\* lines 273-313: the last sequence (no progress text here), then the end
FallbackFastaFinish ==
    /\ pc = "fasta_loop"
    /\ pos > Len(reads_lines)
    /\ LET last == current_header # <<>> /\ current_seq # <<>>
           contaminated == AnySubstring(upper(current_seq), adapters)
           block == <<current_header, current_seq>>
       IN  /\ processed' = IF last THEN processed + 1 ELSE processed
           /\ discarded_lines' = IF last /\ contaminated
                                 THEN Extend(discarded_lines, block)
                                 ELSE discarded_lines
           /\ discarded_count' = IF last /\ contaminated THEN discarded_count + 1
                                 ELSE discarded_count
           /\ kept_lines' = IF last /\ ~contaminated THEN Extend(kept_lines, block)
                            ELSE kept_lines
           /\ kept_count' = IF last /\ ~contaminated THEN kept_count + 1
                            ELSE kept_count
    /\ progress' = FinalReport(progress, processed')
    /\ ret' = FallbackReturn(kept_lines', discarded_lines', kept_count',
                             discarded_count', processed')
    /\ pc' = "returned"
    /\ UNCHANGED <<args, adapters, fmt, reads_lines, pos, current_header,
                   current_seq, total_reads, scanned, kept_reads, discarded_reads,
                   results, message>>

\* one step of the running function
Run ==
    \/ ScoredStart
    \/ CountPass
    \/ ScoredRead
    \/ ScoredFinish
    \/ FallbackStart
    \/ FallbackFastqGroup
    \/ FallbackFastqFinish
    \/ FallbackFastaLine
    \/ FallbackFastaFinish

-----------------------------------------------------------------------------
(* main(): the "Filter Reads" button (lines 395-437) and the "Process New  *)
(* Files" button (lines 523-526).                                          *)

NoResults == [kind |-> "none"]

ResetLocals ==
    /\ adapters' = <<>>
    /\ fmt' = "fastq"
    /\ reads_lines' = <<>>
    /\ pos' = 0
    /\ current_header' = <<>>
    /\ current_seq' = <<>>
    /\ total_reads' = 0
    /\ processed' = 0
    /\ scanned' = 0
    /\ kept_reads' = <<>>
    /\ discarded_reads' = <<>>
    /\ kept_lines' = <<>>
    /\ discarded_lines' = <<>>
    /\ kept_count' = 0
    /\ discarded_count' = 0
    /\ progress' = <<>>
    /\ ret' = NoReturn

\* the arguments of a call that is over
NoArguments ==
    /\ adapter_content = <<>>
    /\ reads_content = <<>>
    /\ reads_filename = <<>>
    /\ params = [match |-> 0, mismatch |-> 0, gap_open |-> 0, gap_extend |-> 0,
                 min_score |-> 0]
    /\ progress_placeholder = FALSE

ResetArguments ==
    /\ adapter_content' = <<>>
    /\ reads_content' = <<>>
    /\ reads_filename' = <<>>
    /\ params' = [match |-> 0, mismatch |-> 0, gap_open |-> 0, gap_extend |-> 0,
                  min_score |-> 0]
    /\ progress_placeholder' = FALSE
    /\ UNCHANGED <<DEPENDENCIES_AVAILABLE, build>>

\* lines 396-397: a file is missing
ClickWithoutFiles ==
    /\ pc = "idle"
    /\ message' = "upload both files"
    /\ UNCHANGED <<args, pc, adapters, fmt, reads_lines, pos, current_header,
                   current_seq, total_reads, processed, scanned, kept_reads,
                   discarded_reads, kept_lines, discarded_lines, kept_count,
                   discarded_count, progress, ret, results>>

\* lines 399-419 with both files decoded: the call of filter_reads_web
ClickFilter(run) ==
    /\ pc = "idle"
    /\ adapter_content' = run.adapter_content
    /\ reads_content' = run.reads_content
    /\ reads_filename' = run.reads_filename
    /\ params' = run.params
    /\ progress_placeholder' = TRUE
    /\ pc' = "call"
    /\ message' = "processing"
    /\ UNCHANGED <<DEPENDENCIES_AVAILABLE, build, adapters, fmt, reads_lines,
                   pos, current_header, current_seq, total_reads, processed,
                   scanned, kept_reads, discarded_reads, kept_lines,
                   discarded_lines, kept_count, discarded_count, progress, ret,
                   results>>

\* lines 413-414 and 436-437: decode('utf-8') raises, the except branch
\* reports it
ClickDecodeError ==
    /\ pc = "idle"
    /\ message' = "error"
    /\ UNCHANGED <<args, pc, adapters, fmt, reads_lines, pos, current_header,
                   current_seq, total_reads, processed, scanned, kept_reads,
                   discarded_reads, kept_lines, discarded_lines, kept_count,
                   discarded_count, progress, ret, results>>

\* lines 421-434: the function returned
StoreResults ==
    /\ pc = "returned"
    /\ results' = [kind |-> "results",
                   kept_content |-> ret.kept_content,
                   discarded_content |-> ret.discarded_content,
                   log_content |-> ret.log_content,
                   reads_filename |-> reads_filename]
    /\ message' = "complete"
    /\ pc' = "idle"
    /\ ResetLocals
    /\ ResetArguments

\* a faulty except branch, for comparison: it stores what the run had so far
ExceptErrorStoresPartial ==
    /\ pc = "raised"
    /\ message' = "error"
    /\ pc' = "idle"
    /\ results' = [kind |-> "results",
                   kept_content |-> SeqIO_write(kept_reads, fmt),
                   discarded_content |-> SeqIO_write(discarded_reads, fmt),
                   log_content |-> LogContent("full", params, reads_filename, fmt,
                                              total_reads, Len(adapters) \div 2,
                                              Len(kept_reads), Len(discarded_reads)),
                   reads_filename |-> reads_filename]
    /\ ResetLocals
    /\ ResetArguments

\* lines 436-437: the function raised
ExceptError ==
    /\ pc = "raised"
    /\ message' = "error"
    /\ pc' = "idle"
    /\ ResetLocals
    /\ ResetArguments
    /\ UNCHANGED results

\* lines 523-526
ClearResults ==
    /\ pc = "idle"
    /\ results # NoResults
    /\ results' = NoResults
    /\ UNCHANGED <<args, pc, adapters, fmt, reads_lines, pos, current_header,
                   current_seq, total_reads, processed, scanned, kept_reads,
                   discarded_reads, kept_lines, discarded_lines, kept_count,
                   discarded_count, progress, ret, message>>

-----------------------------------------------------------------------------
(* The inputs.  Reads are well-formed records, optionally followed (FASTQ) *)
(* by the first lines of one more record; a FASTA record may have no       *)
(* sequence line, or two.                                                  *)

MaxReads == 2

MaxPanelLines == 5

ReadSeqs ==
    { <<"A", "C", "G">>, <<"c", "g", "t">>, <<"A", "N", "G">> }

FastaBodies ==
    { <<>>, << <<"A", "C", "G">> >>, << <<"c", "g">>, <<"t">> >>,
      << <<"A", "N", "G">> >> }

ReadId(k) == <<"r", ToString(k)>>

FastqRecord(k, seq) ==
    << <<"@">> \o ReadId(k), seq, <<"+">>, [i \in 1..Len(seq) |-> "I"] >>

FastaRecord(k, body) == << <<">">> \o ReadId(k) >> \o body

FastqTexts ==
    UNION { { Join([k \in 1..n |-> FastqRecord(k, f[k])])
                \o SubSeq(FastqRecord(n + 1, <<"A", "C", "G">>), 1, t) :
              f \in [1..n -> ReadSeqs], t \in 0..3 } : n \in 0..MaxReads }

FastaTexts ==
    UNION { { Join([k \in 1..n |-> FastaRecord(k, f[k])]) :
              f \in [1..n -> FastaBodies] } : n \in 0..MaxReads }

ReadsTexts(format) == IF format = "fastq" THEN FastqTexts ELSE FastaTexts

FileNames == { <<".", "F", "A">>, <<".", "f", "q">> }

\* adapters AG, CT, ACG, CGT: two records, one header without a sequence
PanelTwo ==
    << <<">", "a">>, <<"a">>, <<"g", " ">>, <<">", "b">>, <<">", "c">>,
       <<"A", "C", "G">> >>

\* adapters ANG, CNT
PanelN == << <<">", "n">>, <<"A", "N", "G">> >>

Panels == { <<>>, PanelTwo, PanelN }

PanelLinePool ==
    { <<">", "a">>, <<" ", ">", "b">>, <<"A", "C", "G">>, <<"g", "t", " ">>, <<>> }

PanelTexts == UNION { [1..n -> PanelLinePool] : n \in 0..MaxPanelLines }

Scoring(m, go, ge, t) ==
    [match |-> m, mismatch |-> 0 - 1, gap_open |-> go, gap_extend |-> ge,
     min_score |-> t]

ParamSets ==
    { Scoring(2, 5, 1, 4), Scoring(2, 5, 1, 6), Scoring(2, 0, 0, 4),
      Scoring(20000, 5, 1, 30), Scoring(20000, 5, 1, 33000) }

AllBuilds ==
    [saturated_score : {0, INT16_MAX}, guard : BOOLEAN, empty_query : {"zero", "raise"}]

\* the builds that can differ on a run: none without the libraries, the
\* saturation fields only when a score of the model's sequences (3 letters
\* at most) can pass the 16-bit limit, the empty query only for FASTA (a
\* FASTQ record of the model has a sequence)
Builds(deps, P, format) ==
    { b \in AllBuilds :
        /\ (~deps \/ 3 * P.match <= INT16_MAX - P.match - 1)
               => (b.saturated_score = 0 /\ b.guard)
        /\ (~deps \/ format = "fastq") => b.empty_query = "zero" }

\* one call of filter_reads_web
Init ==
    /\ DEPENDENCIES_AVAILABLE \in BOOLEAN
    /\ reads_filename \in FileNames
    /\ reads_content \in ReadsTexts(file_format_from_name(reads_filename))
    /\ adapter_content \in Panels
    /\ params \in ParamSets
    /\ build \in Builds(DEPENDENCIES_AVAILABLE, params,
                         file_format_from_name(reads_filename))
    /\ progress_placeholder = TRUE
    /\ pc = "call"
    /\ FreshLocals
    /\ results = NoResults
    /\ message = ""

Next == Run

Spec == Init /\ [][Next]_vars

\* load_adapters alone, on every panel text of up to MaxPanelLines lines
InitLoad ==
    /\ DEPENDENCIES_AVAILABLE = TRUE
    /\ reads_filename = <<".", "f", "q">>
    /\ reads_content = <<>>
    /\ adapter_content \in PanelTexts
    /\ params = Scoring(2, 5, 1, 4)
    /\ build \in Builds(FALSE, params, "fastq")
    /\ progress_placeholder = TRUE
    /\ pc = "call"
    /\ FreshLocals
    /\ results = NoResults
    /\ message = ""

NextLoad == ScoredStart

SpecLoad == InitLoad /\ [][NextLoad]_vars

\* filter_reads_web on long inputs: the counts around the progress interval
BigCounts == { ProgressEvery - 1, ProgressEvery, ProgressEvery + 1, 2 * ProgressEvery }

CycleSeq(k) ==
    IF k % 3 = 0 THEN <<"A", "C", "G">>
    ELSE IF k % 3 = 1 THEN <<"c", "g", "t">>
    ELSE <<"A", "N", "G">>

BigFastq(n) == Join([k \in 1..n |-> FastqRecord(k, CycleSeq(k))])

\* ends with a header without a sequence when open_end
BigFasta(n, open_end) ==
    Join([k \in 1..n |-> FastaRecord(k, <<CycleSeq(k)>>)])
        \o (IF open_end THEN << <<">", "e">> >> ELSE <<>>)

BigTexts(format) ==
    IF format = "fastq" THEN { BigFastq(n) : n \in BigCounts }
    ELSE { BigFasta(n, e) : n \in BigCounts, e \in BOOLEAN }

InitProgress ==
    /\ DEPENDENCIES_AVAILABLE \in BOOLEAN
    /\ reads_filename \in FileNames
    /\ reads_content \in BigTexts(file_format_from_name(reads_filename))
    /\ adapter_content = PanelTwo
    /\ params = Scoring(2, 5, 1, 4)
    /\ build \in Builds(DEPENDENCIES_AVAILABLE, params,
                         file_format_from_name(reads_filename))
    /\ progress_placeholder \in BOOLEAN
    /\ pc = "call"
    /\ FreshLocals
    /\ results = NoResults
    /\ message = ""

SpecProgress == InitProgress /\ [][Next]_vars

\* main() over a session: any number of runs, each on one of SessionRuns
SessionRun(panel, name, text) ==
    [adapter_content |-> panel, reads_content |-> text, reads_filename |-> name,
     params |-> Scoring(2, 5, 1, 4)]

SessionRuns ==
    { SessionRun(PanelTwo, <<".", "f", "q">>,
                 FastqRecord(1, <<"A", "C", "G">>) \o FastqRecord(2, <<"A", "N", "G">>)),
      SessionRun(PanelTwo, <<".", "f", "q">>,
                 FastqRecord(1, <<"A", "N", "G">>)
                     \o SubSeq(FastqRecord(2, <<"A", "C", "G">>), 1, 2)),
      SessionRun(PanelTwo, <<".", "F", "A">>,
                 FastaRecord(1, << <<"A", "C", "G">> >>) \o FastaRecord(2, <<>>)),
      SessionRun(<<>>, <<".", "F", "A">>,
                 FastaRecord(1, << <<"c", "g">>, <<"t">> >>)) }

InitSession ==
    /\ DEPENDENCIES_AVAILABLE \in BOOLEAN
    /\ build \in Builds(DEPENDENCIES_AVAILABLE, Scoring(2, 5, 1, 4), "fasta")
    /\ NoArguments
    /\ pc = "idle"
    /\ FreshLocals
    /\ results = NoResults
    /\ message = ""

NextSession ==
    \/ Run
    \/ ClickWithoutFiles
    \/ \E run \in SessionRuns : ClickFilter(run)
    \/ ClickDecodeError
    \/ StoreResults
    \/ ExceptError
    \/ ClearResults

SpecSession == InitSession /\ [][NextSession]_vars

-----------------------------------------------------------------------------
(* The adapter loader (spec 4.3).                                          *)

\* a text as the line-oriented readers see it: the lines of the stripped
\* text, each stripped
StrippedLines(content) ==
    LET ls == strip_split(content) IN [i \in 1..Len(ls) |-> strip(ls[i])]

HeaderLines(ls) == { i \in DOMAIN ls : startswith(ls[i], ">") }

\* FASTA: every non-empty line that is not a header follows one
IsFasta(ls) ==
    \A i \in DOMAIN ls :
        (ls[i] # <<>> /\ i \notin HeaderLines(ls))
            => \E h \in HeaderLines(ls) : h < i

\* the last line of the record whose header is line h
RecordEnd(ls, h) ==
    LET later == { g \in HeaderLines(ls) : g > h } IN
    IF later = {} THEN Len(ls)
    ELSE (CHOOSE g \in later : \A x \in later : g <= x) - 1

\* the sequence of the record whose header is line h
RecordBody(ls, h) == Join([i \in 1..(RecordEnd(ls, h) - h) |-> ls[h + i]])

\* the headers of the records with a non-empty sequence
FullRecords(ls) == { h \in HeaderLines(ls) : RecordBody(ls, h) # <<>> }

\* the k-th smallest element of a set of numbers
Kth(S, k) == CHOOSE i \in S : Cardinality({ j \in S : j <= i }) = k

PanelLines == StrippedLines(adapter_content)

PanelRecords == FullRecords(PanelLines)

IsReverseComplement(a, b) ==
    /\ Len(b) = Len(a)
    /\ \A i \in 1..Len(a) : b[i] = Complement(a[Len(a) + 1 - i])

\* C4: load_adapters returns an even number of adapters, each odd position
\* followed by the reverse complement of what it holds; on a FASTA panel of
\* N records with a non-empty sequence it returns exactly 2N, the k-th such
\* record giving its upper-cased sequence and then its reverse complement;
\* a record with an empty sequence gives nothing.
C4_LoaderPairs ==
    pc = "count" =>
        /\ Len(adapters) % 2 = 0
        /\ \A k \in 1..(Len(adapters) \div 2) :
               IsReverseComplement(adapters[2 * k - 1], adapters[2 * k])
        /\ IsFasta(PanelLines) =>
               /\ Len(adapters) = 2 * Cardinality(PanelRecords)
               /\ \A k \in 1..Cardinality(PanelRecords) :
                      adapters[2 * k - 1] =
                          upper(RecordBody(PanelLines, Kth(PanelRecords, k)))

\* C4, its case: two records loaded from a panel that also has a header
\* without a sequence
C4_Witness ==
    /\ pc = "count"
    /\ IsFasta(PanelLines)
    /\ Len(adapters) = 4
    /\ adapters[1] # adapters[3]
    /\ \E h \in HeaderLines(PanelLines) : RecordBody(PanelLines, h) = <<>>

-----------------------------------------------------------------------------
(* The session (spec 7, error handling).                                   *)

\* C9: session_state.results changes only when a run has returned, to the
\* three values it returned and the file name, or when the user clears it;
\* a run that raises, in either path, leaves results as it was.
C9_FailedRunStoresNothing ==
    [][ /\ pc = "returned" =>
              results' = [kind |-> "results",
                          kept_content |-> ret.kept_content,
                          discarded_content |-> ret.discarded_content,
                          log_content |-> ret.log_content,
                          reads_filename |-> reads_filename]
        /\ pc = "idle" => results' \in {results, NoResults}
        /\ pc \notin {"returned", "idle"} => results' = results ]_vars

\* C9, its case: a run has just failed and the results are still the ones
\* of the run before it
C9_Witness ==
    /\ pc = "idle"
    /\ message = "error"
    /\ results # NoResults

-----------------------------------------------------------------------------
(* The two paths of the filter (spec 4.2, 4.5, 4.7 and 8).                 *)

ScoredActive == DEPENDENCIES_AVAILABLE /\ pc \in {"scan", "returned"}

FallbackActive ==
    ~DEPENDENCIES_AVAILABLE /\ pc \in {"fastq_loop", "fasta_loop", "returned"}

InputFormat == file_format_from_name(reads_filename)

ReadsLines == StrippedLines(reads_content)

\* the elements of s at the positions in S, in the order of s
Pick(s, S) == [k \in 1..Cardinality(S) |-> s[Kth(S, k)]]

\* kept and discarded split the first n elements of all, each in order
IsOrderedPartition(all, n, kept, discarded) ==
    \E D \in SUBSET (1..n) :
        /\ kept = Pick(all, (1..n) \ D)
        /\ discarded = Pick(all, D)

\* the records of the scored path: what the parser yields
ParsedRecords == SeqIO_parse(reads_content, fmt).records

\* the records of the fallback path, as the lines it writes: the groups of
\* four lines (FASTQ), the header and the joined sequence of each record
\* with a non-empty sequence (FASTA)
FallbackBlocks ==
    IF fmt = "fastq"
    THEN [g \in 1..(Len(reads_lines) \div 4) |->
              SubSeq(reads_lines, 4 * g - 3, 4 * g)]
    ELSE [k \in 1..Cardinality(FullRecords(ReadsLines)) |->
              LET h == Kth(FullRecords(ReadsLines), k) IN
              <<ReadsLines[h], RecordBody(ReadsLines, h)>>]

\* C3: in both paths the reads are taken in input order, and kept and
\* discarded are each a subsequence, in input order, of the records parsed
\* so far, every such record in exactly one of the two and as it was
\* parsed; the two outputs of a completed run are these records written out.
C3_OrderedPartition ==
    /\ ScoredActive =>
           /\ Len(kept_reads) + Len(discarded_reads) = processed
           /\ processed <= Len(ParsedRecords)
           /\ IsOrderedPartition(ParsedRecords, processed, kept_reads,
                                 discarded_reads)
           /\ pc = "returned" =>
                  /\ processed = Len(ParsedRecords)
                  /\ SeqIO_parse(ret.kept_content, fmt).records = kept_reads
                  /\ SeqIO_parse(ret.discarded_content, fmt).records =
                         discarded_reads
    /\ FallbackActive =>
           /\ kept_count + discarded_count = processed
           /\ processed <= Len(FallbackBlocks)
           /\ \E D \in SUBSET (1..processed) :
                  /\ kept_lines = Join(Pick(FallbackBlocks, (1..processed) \ D))
                  /\ discarded_lines = Join(Pick(FallbackBlocks, D))
                  /\ kept_count = processed - Cardinality(D)
           /\ pc = "returned" =>
                  /\ processed = Len(FallbackBlocks)
                  /\ ret.kept_content = kept_lines
                  /\ ret.discarded_content = discarded_lines

\* C3, its case: a completed scored run that kept the two records of its
\* input, whose order can be seen
C3_Witness ==
    /\ ScoredActive
    /\ pc = "returned"
    /\ Len(kept_reads) = 2
    /\ kept_reads[1] # kept_reads[2]

\* the complete groups of four lines of a FASTQ text
CompleteGroups == Len(strip_split(reads_content)) \div 4

\* the reads of the input that are whole and have a sequence
CountableReads ==
    IF InputFormat = "fastq" THEN CompleteGroups
    ELSE Cardinality(FullRecords(ReadsLines))

LogCountsAddUp ==
    /\ ret.log_content.reads_kept + ret.log_content.reads_discarded =
           ret.log_content.total_reads
    /\ ret.log_content.reads_kept =
           (IF DEPENDENCIES_AVAILABLE THEN Len(kept_reads) ELSE kept_count)
    /\ ret.log_content.reads_discarded =
           (IF DEPENDENCIES_AVAILABLE THEN Len(discarded_reads)
            ELSE discarded_count)

TruncatedFastq ==
    /\ InputFormat = "fastq"
    /\ reads_content # <<>>
    /\ Len(strip_split(reads_content)) % 4 # 0

Lines(ls) == { ls[i] : i \in DOMAIN ls }

C8_ScoredFails ==
    /\ TruncatedFastq
    /\ DEPENDENCIES_AVAILABLE
    /\ pc = "raised"

\* the thresholds compared with the one of the run
Thresholds == (1..7) \cup {30, INT16_MAX, 33000, 60000}

AtThreshold(t) == [params EXCEPT !.min_score = t]

\* the classification of line 140 at threshold t, everything else as in
\* the run
ContaminatedAt(rec, t) ==
    ScanAdapters(upper(rec.seq), adapters, AtThreshold(t), build, 1) > 0

\* C6: with the panel, the reads, the file name and the four scoring
\* parameters fixed, a read discarded at min_score = t2 is discarded at
\* every t1 <= t2, and a read kept at t1 is kept at every t2 >= t1: raising
\* min_score never adds a discarded read nor removes a kept one.
C6_ThresholdMonotone ==
    ScoredActive =>
        \A t \in Thresholds :
            /\ t <= params.min_score =>
                   \A i \in 1..Len(discarded_reads) :
                       ContaminatedAt(discarded_reads[i], t)
            /\ t >= params.min_score =>
                   \A i \in 1..Len(kept_reads) :
                       ~ContaminatedAt(kept_reads[i], t)

\* C6, its case: a completed run at min_score = 6 that discarded a read and
\* kept another one which a run at min_score = 4 discards
C6_Witness ==
    /\ ScoredActive
    /\ pc = "returned"
    /\ params.min_score = 6
    /\ Len(discarded_reads) > 0
    /\ \E i \in 1..Len(kept_reads) : ContaminatedAt(kept_reads[i], 4)

\* the score of the best local alignment, without the 16-bit limit, at
\* least min_score for some adapter
ReachesThreshold(seq) ==
    \E k \in 1..Len(adapters) : SWScore(seq, adapters[k], params) >= params.min_score

\* C2 as stated: a read is discarded if and only if some loaded adapter has
\* a local-alignment score against the upper-cased read of at least
\* min_score; otherwise, and always when no adapter is loaded, it is kept.
C2_Stated ==
    ScoredActive =>
        /\ \A i \in 1..Len(discarded_reads) :
               ReachesThreshold(upper(discarded_reads[i].seq))
        /\ \A i \in 1..Len(kept_reads) :
               ~ReachesThreshold(upper(kept_reads[i].seq))

\* what the classifier does do: it discards a read exactly when the score
\* reported by sw_scan_16 reaches min_score for some adapter, it stops at
\* the first such adapter, and it keeps every read of an empty panel
ReportedScoreRouting ==
    ScoredActive =>
        /\ \A i \in 1..Len(discarded_reads) :
               \E k \in 1..Len(adapters) :
                   sw_scan_16(upper(discarded_reads[i].seq), adapters[k],
                              params, build).score >= params.min_score
        /\ \A i \in 1..Len(kept_reads) :
               \A k \in 1..Len(adapters) :
                   sw_scan_16(upper(kept_reads[i].seq), adapters[k],
                              params, build).score < params.min_score
        /\ (processed > 0 /\ discarded_reads # <<>>
                /\ Len(discarded_reads) + Len(kept_reads) = processed
                /\ scanned < Len(adapters))
               => \E i \in 1..Len(discarded_reads) :
                      /\ sw_scan_16(upper(discarded_reads[i].seq), adapters[scanned],
                                    params, build).score >= params.min_score
                      /\ \A k \in 1..(scanned - 1) :
                             sw_scan_16(upper(discarded_reads[i].seq), adapters[k],
                                        params, build).score < params.min_score
        /\ adapters = <<>> => discarded_reads = <<>>

\* C7 as stated: a read whose upper-cased sequence is a loaded adapter is
\* discarded whenever min_score is at most the score of the adapter aligned
\* with itself, whatever the size of that score.
C7_Stated ==
    ScoredActive =>
        \A i \in 1..Len(kept_reads) :
            \A k \in 1..Len(adapters) :
                upper(kept_reads[i].seq) = adapters[k]
                    => params.min_score > SWScore(adapters[k], adapters[k], params)

\* the upper-cased sequences of the reads in a list of output lines of the
\* fallback: the second line of each block
BlockSeqs(lines) ==
    LET size == IF fmt = "fastq" THEN 4 ELSE 2 IN
    { upper(strip(lines[size * (b - 1) + 2])) : b \in 1..(Len(lines) \div size) }

\* C5 as stated: the fallback discards a read if and only if some adapter
\* of the set the loader makes of the panel, the upper-cased sequences and
\* their reverse complements, is a substring of the upper-cased read.
C5_Stated ==
    FallbackActive =>
        /\ \A seq \in BlockSeqs(discarded_lines) :
               AnySubstring(seq, load_adapters(adapter_content))
        /\ \A seq \in BlockSeqs(kept_lines) :
               ~AnySubstring(seq, load_adapters(adapter_content))

\* what the fallback does do: the same with the upper-cased sequences of
\* the panel only
ForwardOnlyRouting ==
    FallbackActive =>
        /\ \A seq \in BlockSeqs(discarded_lines) :
               AnySubstring(seq, fallback_adapters(adapter_content))
        /\ \A seq \in BlockSeqs(kept_lines) :
               ~AnySubstring(seq, fallback_adapters(adapter_content))

-----------------------------------------------------------------------------
(* The progress texts (spec 5 and 6).                                      *)

\* the reports written inside the loops: all of them, less the last one of
\* a completed run
Intermediate == IF pc = "returned" THEN Len(progress) - 1 ELSE Len(progress)

ProgressOrdered ==
    /\ \A i \in 1..Len(progress) : progress[i][1] <= progress[i][2]
    /\ \A i \in 1..Len(progress) : \A j \in i..Len(progress) :
           progress[i][1] <= progress[j][1]
    /\ \A i \in 1..Intermediate :
           progress[i][1] > 0 /\ progress[i][1] % ProgressEvery = 0
    /\ pc = "returned" =>
           progress[Len(progress)] =
               <<ret.log_content.total_reads, ret.log_content.total_reads>>

\* every multiple of the interval reached so far has its report
EveryIntervalReported ==
    \A k \in 1..(processed \div ProgressEvery) :
        \E i \in 1..Intermediate : progress[i][1] = k * ProgressEvery

\* C10 as stated: in a run of either path on either format the processed
\* values written are non-decreasing, each at most the total written with
\* it, an intermediate report is written exactly when processed is a
\* positive multiple of 100, and the last report of a completed run is
\* (T, T) with T the Total reads of the log.
C10_Stated ==
    (progress_placeholder /\ pc # "raised")
        => (ProgressOrdered /\ EveryIntervalReported)

\* what the code does do: all of it, except that the FASTA loop of the
\* fallback writes no report for the record it handles after the loop
ProgressAsWritten ==
    (progress_placeholder /\ pc # "raised") =>
        /\ ProgressOrdered
        /\ ~(~DEPENDENCIES_AVAILABLE /\ fmt = "fasta" /\ pc = "returned")
               => EveryIntervalReported

=============================================================================
